---- MODULE Spec2Model ----
(***************************************************************************)
(* Verification model of the Neura backend core:                           *)
(*   - app/routes/chat.py    _assemble_context, _prepare_history           *)
(*   - app/utils/chunker.py  chunk_text, get_chunk_count, count_tokens     *)
(*                                                                         *)
(* Texts are run-length encoded strings: a text is a sequence of runs      *)
(* [c |-> character, n |-> repetitions >= 1] in which adjacent runs carry  *)
(* different characters.  The tokenizer (tiktoken, an external library) is *)
(* modelled as a merging tokenizer: a token is up to CHARS_PER_TOKEN       *)
(* repetitions of one character, so token counts are not additive under    *)
(* concatenation and decode(encode(x)) is computed, not assumed.           *)
(***************************************************************************)
EXTENDS Integers, Sequences, FiniteSets, TLC

VARIABLES
    \* ---- _assemble_context ----
    matches,          \* the argument: list of match rows
    active_matches,   \* the working copy the loop evicts from
    asm_pc,           \* "idle" | "loop" | "returned" | "raised"
    asm_result,       \* the returned list (<<>> until returned)
    \* ---- _prepare_history ----
    history,          \* the argument: list of messages, oldest first
    hist_pos,         \* index of the next message the backward scan visits
    running_total,    \* tokens accumulated so far
    trimmed,          \* kept messages, chronological
    hist_pc,          \* "idle" | "start" | "scan" | "render" | "returned"
    hist_result,      \* the returned list of {role, parts}
    \* ---- chunk_text, then get_chunk_count on the same arguments ----
    text,             \* the argument text
    chunk_size,       \* the argument chunk_size
    overlap,          \* the argument overlap
    encoder_fails,    \* get_encoder (cl100k_base substitute included) or encode raises
    chunk_pc,         \* "idle" | "start" | "window" | "fallback" | "count" | "done" | "end"
    tokens,           \* encoder.encode(text) once computed
    start_idx,        \* window start of the running loop
    chunks,           \* chunks appended so far
    chunk_outcome,    \* chunk_text: "none" | "returned" | "raised"
    decode_failed,    \* some window was skipped by the inner except
    count_outcome,    \* get_chunk_count: "none" | "returned" | "raised"
    chunk_count,      \* value returned by get_chunk_count
    encoding_known,   \* tiktoken.get_encoding(encoding_name) finds the requested encoding
    windows,          \* [s, e): start_idx / end_idx of every chunk appended
    skipped,          \* start_idx of every window the inner except skipped
    counted_tokens,   \* value returned by count_tokens(text) called afterwards
    \* ---- calculate_sm2, each result stored and fed to the next review ----
    card,             \* stored schedule [efactor (hundredths), repetitions, interval]
    current,          \* current_efactor / _repetitions / _interval of the last call
    quality,          \* quality argument of the last call
    sm_outcome,       \* "none" | "ok" | "InvalidQuality" | "InvalidRepetitions" | "InvalidInterval"
    reviews,          \* number of calls made
    \* ---- POST /flashcards/review, two requests for the same flashcard ----
    flashcard,        \* the flashcards row: [efactor, repetitions, interval]
    flashcard_found,  \* the row exists and belongs to the user
    flashcard_before, \* the row before either request
    review_pc,        \* per request: "start" | "update" | "done" | "http404" | "http500"
    review_quality,   \* per request: request.quality
    sm2_result,       \* per request: the SM2Result it computed
    \* ---- format_interval_description ----
    describe_days,    \* the interval argument
    describe_pc,      \* "call" | "returned" | "raised"
    description,      \* the string returned: [count, unit] for "<count> <unit>"
    \* ---- generate_embedding ----
    embed_args,       \* [text_empty, task_type_valid, dimensions, client_ok]
    embed_pc,         \* "validate" | "loop" | "returned" | "ValueError" | "RuntimeError"
    retry_count,      \* retries made so far
    retry_delay,      \* seconds to sleep before the next retry
    api_attempts,     \* calls of genai.embed_content made
    slept,            \* the delays passed to time.sleep, in order
    last_error,       \* markers found in the message of the last attempt's exception
    embed_raised,     \* which raise ended the call
    \* ---- POST /chat and its sse_stream ----
    chat_pc,          \* "request" | "rejected" | "open" | "collect" | "tokens" | "closed"
    chat_status,      \* HTTP status of the response
    gen_tokens,       \* the fragments stream_chat_response yields
    gen_error,        \* [raises, message]: whether it raises before it is exhausted
    pending_tokens,   \* collected fragments not yet looked at
    sse_events,       \* the frames yielded so far, [event, data]
    \* ---- POST /embed ----
    document,         \* the documents row: [found, has_text, status]
    status_before,    \* documents.status before the request
    embed_doc_pc,     \* "fetch" | "chunk" | "delete" | "generate" | "insert" | "mark" | "responded"
    doc_chunks,       \* chunk_text(extracted_text, ...)
    embedding_rows,   \* the document's rows in the embeddings table
    status_updates,   \* the updates of documents.status issued: [to, ok]
    embed_http,       \* status code of the response
    failed_stage      \* the step that failed

asmVars   == <<matches, active_matches, asm_pc, asm_result>>
histVars  == <<history, hist_pos, running_total, trimmed, hist_pc, hist_result>>
chunkVars == <<text, chunk_size, overlap, encoder_fails, chunk_pc, tokens,
               start_idx, chunks, chunk_outcome, decode_failed, count_outcome,
               chunk_count, encoding_known, windows, skipped, counted_tokens>>
sm2Vars   == <<card, current, quality, sm_outcome, reviews>>
routeVars == <<flashcard, flashcard_found, flashcard_before, review_pc,
               review_quality, sm2_result>>
descVars  == <<describe_days, describe_pc, description>>
embedVars == <<embed_args, embed_pc, retry_count, retry_delay, api_attempts,
               slept, last_error, embed_raised>>
chatVars  == <<chat_pc, chat_status, gen_tokens, gen_error, pending_tokens, sse_events>>
docVars   == <<document, status_before, embed_doc_pc, doc_chunks, embedding_rows,
               status_updates, embed_http, failed_stage>>
vars      == <<asmVars, histVars, chunkVars, sm2Vars, routeVars, descVars, embedVars,
               chatVars, docVars>>

\* what each component leaves alone
notAsm   == <<histVars, chunkVars, sm2Vars, routeVars, descVars, embedVars, chatVars, docVars>>
notHist  == <<asmVars, chunkVars, sm2Vars, routeVars, descVars, embedVars, chatVars, docVars>>
notChunk == <<asmVars, histVars, sm2Vars, routeVars, descVars, embedVars, chatVars, docVars>>
notSM2   == <<asmVars, histVars, chunkVars, routeVars, descVars, embedVars, chatVars, docVars>>
notRoute == <<asmVars, histVars, chunkVars, sm2Vars, descVars, embedVars, chatVars, docVars>>
notDesc  == <<asmVars, histVars, chunkVars, sm2Vars, routeVars, embedVars, chatVars, docVars>>
notEmbed == <<asmVars, histVars, chunkVars, sm2Vars, routeVars, descVars, chatVars, docVars>>
notDoc   == <<asmVars, histVars, chunkVars, sm2Vars, routeVars, descVars, embedVars,
             chatVars>>
notChat  == <<asmVars, histVars, chunkVars, sm2Vars, routeVars, descVars, embedVars, docVars>>

(***************************************************************************)
(* Bounds of the model.                                                    *)
(***************************************************************************)
MaxMatches  == 3      \* longest list of matches handed to _assemble_context
MaxHistory  == 3      \* longest conversation history
MaxChunkSize == 3     \* largest chunk_size / overlap argument tried
MaxDays     == 800    \* longest interval described, besides MAX_INTERVAL_DAYS
MaxFragments == 2     \* most fragments one generation yields
MaxDocChunks == 2     \* most chunks of one document
MaxReviews  == 5      \* longest sequence of reviews of one card

(***************************************************************************)
(* Program constants.                                                      *)
(***************************************************************************)
MAX_CONTEXT_TOKENS == 8000
MAX_HISTORY_TOKENS == 4000
CHARS_PER_TOKEN    == 4
MIN_EFACTOR        == 130     \* 1.3, efactors are counted in hundredths
DEFAULT_EFACTOR    == 250     \* 2.5
DEFAULT_REPETITIONS == 0
DEFAULT_INTERVAL   == 1
MIN_QUALITY        == 0
MAX_QUALITY        == 5
PASSING_QUALITY    == 3
MAX_INTERVAL_DAYS  == 3650
DEFAULT_DIMENSIONS  == 1536
MAX_DIMENSIONS      == 3072   \* the literal in the dimensions guard
MAX_RETRIES         == 5
INITIAL_RETRY_DELAY == 2      \* seconds
MAX_RETRY_DELAY     == 120    \* seconds

(***************************************************************************)
(* Texts.                                                                  *)
(***************************************************************************)
Rep(c, n) == IF n = 0 THEN <<>> ELSE <<[c |-> c, n |-> n]>>

\* Python str + str on run-length encoded texts
Concat(s, t) ==
    IF s = <<>> THEN t
    ELSE IF t = <<>> THEN s
    ELSE IF s[Len(s)].c = t[1].c
         THEN SubSeq(s, 1, Len(s) - 1)
                \o <<[c |-> t[1].c, n |-> s[Len(s)].n + t[1].n]>>
                \o Tail(t)
         ELSE s \o t

RECURSIVE TextLen(_)
\* len(text)
TextLen(t) == IF t = <<>> THEN 0 ELSE t[1].n + TextLen(Tail(t))

\* "\n\n---\n\n"
SEPARATOR == <<[c |-> "\n", n |-> 2], [c |-> "-", n |-> 3], [c |-> "\n", n |-> 2]>>

RECURSIVE JoinTexts(_)
\* "\n\n---\n\n".join(texts)
JoinTexts(texts) ==
    IF texts = <<>> THEN <<>>
    ELSE IF Len(texts) = 1 THEN texts[1]
    ELSE Concat(Concat(texts[1], SEPARATOR), JoinTexts(Tail(texts)))

IsWhitespace(c) == c \in {" ", "\n"}

\* not text or not text.strip()
IsBlank(t) == \A i \in 1..Len(t) : IsWhitespace(t[i].c)

\* ceil(a / b) for b > 0, any integer a (math.ceil of a true division)
CeilDiv(a, b) == -((-a) \div b)

RECURSIVE NumTokens(_)
\* len(encoder.encode(text)): every run of n equal characters is
\* ceil(n / CHARS_PER_TOKEN) tokens
NumTokens(t) ==
    IF t = <<>> THEN 0
    ELSE CeilDiv(t[1].n, CHARS_PER_TOKEN) + NumTokens(Tail(t))

\* count_tokens(text) with the encoder available
count_tokens(t) == IF IsBlank(t) THEN 0 ELSE NumTokens(t)

(***************************************************************************)
(* _assemble_context                                                       *)
(***************************************************************************)
\* item.get("similarity") or 0.0
SimilarityKey(m) == IF m.similarity = 0 THEN 0 ELSE m.similarity

RECURSIVE InsertByChunkIndex(_, _)
\* stable insertion of m into an already sorted list, after equal keys
InsertByChunkIndex(m, s) ==
    IF s = <<>> THEN <<m>>
    ELSE IF s[1].chunk_index <= m.chunk_index
         THEN <<s[1]>> \o InsertByChunkIndex(m, Tail(s))
         ELSE <<m>> \o s

\* mutant: the list is handed on in its incoming order
SortByChunkIndex_unsorted(s) == s

RECURSIVE SortByChunkIndex(_)
\* sorted(active_matches, key=chunk_index): stable, ascending
SortByChunkIndex(s) ==
    IF s = <<>> THEN <<>>
    ELSE LET n == Len(s)
         IN  InsertByChunkIndex(s[n], SortByChunkIndex(SubSeq(s, 1, n - 1)))

\* join of the chunk texts of an ordered list
ContextText(ordered) ==
    JoinTexts([i \in 1..Len(ordered) |-> ordered[i].chunk_text])

\* mutants of the budget test: off by one above, and strict
WithinContextBudget_plus1(token_count) == token_count <= MAX_CONTEXT_TOKENS + 1
WithinContextBudget_strict(token_count) == token_count < MAX_CONTEXT_TOKENS

\* token_count <= MAX_CONTEXT_TOKENS
WithinContextBudget(token_count) == token_count <= MAX_CONTEXT_TOKENS

\* mutant: max() in place of min()
LowestIndex_highest(s) ==
    CHOOSE i \in 1..Len(s) :
        /\ \A j \in 1..Len(s) : SimilarityKey(s[i]) >= SimilarityKey(s[j])
        /\ \A j \in 1..(i - 1) : SimilarityKey(s[j]) < SimilarityKey(s[i])

\* min(active_matches, key=similarity): index of the first minimal element
LowestIndex(s) ==
    CHOOSE i \in 1..Len(s) :
        /\ \A j \in 1..Len(s) : SimilarityKey(s[i]) <= SimilarityKey(s[j])
        /\ \A j \in 1..(i - 1) : SimilarityKey(s[j]) > SimilarityKey(s[i])

\* list.remove(x): drops the first element equal to x
RemoveFirst(s, x) ==
    LET i == CHOOSE k \in 1..Len(s) : s[k] = x /\ \A j \in 1..(k - 1) : s[j] # x
    IN  SubSeq(s, 1, i - 1) \o SubSeq(s, i + 1, Len(s))

\* loop iteration whose budget test succeeds: return ordered
AssembleReturn ==
    /\ asm_pc = "loop"
    /\ active_matches # <<>>
    /\ LET ordered == SortByChunkIndex(active_matches)
       IN  /\ WithinContextBudget(count_tokens(ContextText(ordered)))
           /\ asm_result' = ordered
    /\ asm_pc' = "returned"
    /\ UNCHANGED <<matches, active_matches, notAsm>>

\* loop iteration whose budget test fails: evict the lowest-similarity match
AssembleEvict ==
    /\ asm_pc = "loop"
    /\ active_matches # <<>>
    /\ LET ordered == SortByChunkIndex(active_matches)
       IN  ~WithinContextBudget(count_tokens(ContextText(ordered)))
    /\ active_matches' =
           RemoveFirst(active_matches, active_matches[LowestIndex(active_matches)])
    /\ UNCHANGED <<matches, asm_pc, asm_result, notAsm>>

\* the loop ran out of candidates: raise HTTPException(404)
AssembleRaise ==
    /\ asm_pc = "loop"
    /\ active_matches = <<>>
    /\ asm_pc' = "raised"
    /\ UNCHANGED <<matches, active_matches, asm_result, notAsm>>

(***************************************************************************)
(* Inputs of _assemble_context.                                            *)
(***************************************************************************)
ChunkIndexes == 0..1
Similarities == {50, 70, 90}          \* hundredths
ChunkTexts ==
    { <<>>,                           \* ""
      Rep("A", 32004),                \* 8001 tokens
      Rep("A", 20000),                \* 5000 tokens
      Rep("B", 11988) }               \* 2997 tokens

\* the other components are not running
HistIdle ==
    /\ history = <<>>
    /\ hist_pos = 0
    /\ running_total = 0
    /\ trimmed = <<>>
    /\ hist_pc = "idle"
    /\ hist_result = <<>>

ChunkIdle ==
    /\ text = <<>>
    /\ chunk_size = 1
    /\ overlap = 0
    /\ encoder_fails = FALSE
    /\ chunk_pc = "idle"
    /\ tokens = <<>>
    /\ start_idx = 0
    /\ chunks = <<>>
    /\ chunk_outcome = "none"
    /\ decode_failed = FALSE
    /\ count_outcome = "none"
    /\ chunk_count = 0
    /\ encoding_known = TRUE
    /\ windows = <<>>
    /\ skipped = {}
    /\ counted_tokens = 0

DocIdle ==
    /\ document = [found |-> FALSE, has_text |-> FALSE, status |-> "extracted"]
    /\ status_before = "extracted"
    /\ embed_doc_pc = "responded"
    /\ doc_chunks = <<>>
    /\ embedding_rows = <<>>
    /\ status_updates = <<>>
    /\ embed_http = 404
    /\ failed_stage = "fetch"

ChatIdle ==
    /\ chat_pc = "rejected"
    /\ chat_status = 404
    /\ gen_tokens = <<>>
    /\ gen_error = [raises |-> FALSE, message |-> ""]
    /\ pending_tokens = <<>>
    /\ sse_events = <<>>

EmbedIdle ==
    /\ embed_args = [text_empty |-> FALSE, task_type_valid |-> TRUE,
                     dimensions |-> DEFAULT_DIMENSIONS, client_ok |-> TRUE]
    /\ embed_pc = "returned"
    /\ retry_count = 0
    /\ retry_delay = INITIAL_RETRY_DELAY
    /\ api_attempts = 1
    /\ slept = <<>>
    /\ last_error = {}
    /\ embed_raised = "none"

NoDescription == [count |-> 0, unit |-> ""]

DescIdle ==
    /\ describe_days = 1
    /\ describe_pc = "returned"
    /\ description = [count |-> 1, unit |-> "day"]

Requests == {1, 2}

RouteIdle ==
    /\ flashcard = [efactor |-> DEFAULT_EFACTOR, repetitions |-> DEFAULT_REPETITIONS,
                    interval |-> DEFAULT_INTERVAL]
    /\ flashcard_found = TRUE
    /\ flashcard_before = flashcard
    /\ review_pc = [r \in Requests |-> "done"]
    /\ review_quality = [r \in Requests |-> 0]
    /\ sm2_result = [r \in Requests |-> flashcard]

SM2Idle ==
    /\ card = [efactor |-> DEFAULT_EFACTOR, repetitions |-> DEFAULT_REPETITIONS,
               interval |-> DEFAULT_INTERVAL]
    /\ current = card
    /\ quality = [is_int |-> TRUE, v |-> 0]
    /\ sm_outcome = "none"
    /\ reviews = 0

InitAssemble ==
    \* rows as the match_embeddings RPC returns them: ids are unique
    /\ \E n \in 0..MaxMatches :
         \E f \in [1..n -> ChunkIndexes \X Similarities \X ChunkTexts] :
            matches = [i \in 1..n |-> [id |-> i,
                               chunk_index |-> f[i][1],
                               similarity  |-> f[i][2],
                               chunk_text  |-> f[i][3]]]
    /\ active_matches = matches
    /\ asm_pc = "loop"
    /\ asm_result = <<>>
    /\ HistIdle
    /\ ChunkIdle
    /\ SM2Idle
    /\ RouteIdle
    /\ DescIdle
    /\ EmbedIdle
    /\ ChatIdle
    /\ DocIdle

NextAssemble == AssembleReturn \/ AssembleEvict \/ AssembleRaise

SpecAssemble == InitAssemble /\ [][NextAssemble]_vars

(***************************************************************************)
(* Properties of _assemble_context.                                        *)
(***************************************************************************)
\* the rows of matches whose ids are in S, in input order
Pick(S) == SelectSeq(matches, LAMBDA m : m.id \in S)

\* tokens of the rows S once sorted by chunk_index and joined
JoinedTokens(rows) == count_tokens(ContextText(SortByChunkIndex(rows)))

ResultIds == { asm_result[i].id : i \in 1..Len(asm_result) }

\* C1: a returned list, sorted by chunk_index and joined with the separator,
\* never counts more than MAX_CONTEXT_TOKENS tokens.
C1_ReturnedWithinBudget ==
    asm_pc = "returned" => JoinedTokens(asm_result) <= MAX_CONTEXT_TOKENS

\* C1 witness: a list returned after an eviction that sits exactly on the budget
C1_Witness ==
    /\ asm_pc = "returned"
    /\ Len(asm_result) < Len(matches)
    /\ JoinedTokens(asm_result) = MAX_CONTEXT_TOKENS

\* C2: every eviction step removes exactly one candidate and that candidate has
\* the minimum similarity of the current set; hence every evicted match has
\* similarity <= that of every returned match.
C2_EvictsLowest ==
    /\ [][ active_matches' # active_matches =>
             \E i \in 1..Len(active_matches) :
                /\ active_matches' = SubSeq(active_matches, 1, i - 1)
                                       \o SubSeq(active_matches, i + 1, Len(active_matches))
                /\ \A j \in 1..Len(active_matches) :
                      SimilarityKey(active_matches[i]) <= SimilarityKey(active_matches[j])
         ]_vars
    /\ [](asm_pc = "returned" =>
             \A i \in 1..Len(matches) : \A j \in 1..Len(asm_result) :
                 matches[i].id \notin ResultIds =>
                     SimilarityKey(matches[i]) <= SimilarityKey(asm_result[j]))

\* C2 witness: three candidates with similarities 90/70/50, the 50 one evicted
C2_Witness ==
    /\ asm_pc = "returned"
    /\ Len(matches) = 3
    /\ { matches[i].similarity : i \in 1..3 } = {50, 70, 90}
    /\ Len(asm_result) = 2
    /\ \A j \in 1..2 : asm_result[j].similarity # 50

\* C3: a returned list is sorted by chunk_index ascending.
C3_ReturnedSorted ==
    asm_pc = "returned" =>
        \A i \in 1..Len(asm_result) : \A j \in 1..Len(asm_result) :
            i < j => asm_result[i].chunk_index <= asm_result[j].chunk_index

\* C3 witness: the input was in descending chunk_index order, one match was
\* evicted, and two matches with different chunk_index were returned
C3_Witness ==
    /\ asm_pc = "returned"
    /\ Len(matches) = 3
    /\ Len(asm_result) = 2
    /\ asm_result[1].chunk_index < asm_result[2].chunk_index
    /\ asm_result[1].id > asm_result[2].id

\* C4 (as claimed): the call raises only when no non-empty subset of the given
\* matches fits the budget, and then nothing is returned.
C4_RaisesOnlyIfNothingFits ==
    asm_pc = "raised" =>
        /\ asm_result = <<>>
        /\ ~\E S \in SUBSET (1..Len(matches)) :
                S # {} /\ JoinedTokens(Pick(S)) <= MAX_CONTEXT_TOKENS

\* row j ranks above row i: higher similarity, or equal similarity and later
\* in the input (min() evicts the earliest of equal-lowest rows)
Outranks(j, i) ==
    \/ SimilarityKey(matches[j]) > SimilarityKey(matches[i])
    \/ SimilarityKey(matches[j]) = SimilarityKey(matches[i]) /\ j > i

\* the k highest-ranked rows
TopK(k) ==
    { i \in 1..Len(matches) :
        Cardinality({ j \in 1..Len(matches) : Outranks(j, i) }) < k }

\* C5: the returned list is exactly the k highest-similarity matches, sorted,
\* for the largest k >= 1 whose concatenation fits (equal similarities ranked
\* by input position); so a fitting input is returned whole.
C5_ReturnsLargestTopK ==
    asm_pc = "returned" =>
        \E k \in 1..Len(matches) :
            /\ asm_result = SortByChunkIndex(Pick(TopK(k)))
            /\ JoinedTokens(Pick(TopK(k))) <= MAX_CONTEXT_TOKENS
            /\ \A k2 \in (k + 1)..Len(matches) :
                  JoinedTokens(Pick(TopK(k2))) > MAX_CONTEXT_TOKENS

\* C5 witness: three candidates, two of them returned
C5_Witness ==
    /\ asm_pc = "returned"
    /\ Len(matches) = 3
    /\ Len(asm_result) = 2
    /\ JoinedTokens(matches) > MAX_CONTEXT_TOKENS

(***************************************************************************)
(* _prepare_history                                                        *)
(***************************************************************************)
\* mutant: the budget test rejects a total that lands exactly on the budget
OverHistoryBudget_inclusive(total) == total >= MAX_HISTORY_TOKENS

\* running_total + message_tokens > MAX_HISTORY_TOKENS
OverHistoryBudget(total) == total > MAX_HISTORY_TOKENS

\* mutant: list.append in place of insert(0, ...)
InsertFront_append(s, m) == Append(s, m)

\* trimmed.insert(0, message)
InsertFront(s, m) == <<m>> \o s

\* {"role": msg.role, "parts": [msg.content]}
Render(msg) == [role |-> msg.role, parts |-> <<msg.content>>]

\* if not history: return []
HistReturnEmpty ==
    /\ hist_pc = "start"
    /\ history = <<>>
    /\ hist_result' = <<>>
    /\ hist_pc' = "returned"
    /\ UNCHANGED <<history, hist_pos, running_total, trimmed, notHist>>

\* running_total = 0; trimmed = []; enter the loop over history[::-1]
HistEnterLoop ==
    /\ hist_pc = "start"
    /\ history # <<>>
    /\ running_total' = 0
    /\ trimmed' = <<>>
    /\ hist_pos' = Len(history)
    /\ hist_pc' = "scan"
    /\ UNCHANGED <<history, hist_result, notHist>>

\* loop iteration that keeps the message
HistKeep ==
    /\ hist_pc = "scan"
    /\ hist_pos >= 1
    /\ LET message == history[hist_pos]
           message_tokens == count_tokens(message.content)
       IN  /\ ~OverHistoryBudget(running_total + message_tokens)
           /\ trimmed' = InsertFront(trimmed, message)
           /\ running_total' = running_total + message_tokens
    /\ hist_pos' = hist_pos - 1
    /\ UNCHANGED <<history, hist_pc, hist_result, notHist>>

\* loop iteration that overflows the budget: break
HistBreak ==
    /\ hist_pc = "scan"
    /\ hist_pos >= 1
    /\ OverHistoryBudget(running_total + count_tokens(history[hist_pos].content))
    /\ hist_pc' = "render"
    /\ UNCHANGED <<history, hist_pos, running_total, trimmed, hist_result, notHist>>

\* the reversed history is exhausted
HistExhausted ==
    /\ hist_pc = "scan"
    /\ hist_pos = 0
    /\ hist_pc' = "render"
    /\ UNCHANGED <<history, hist_pos, running_total, trimmed, hist_result, notHist>>

\* return [{"role": ..., "parts": [...]} for msg in trimmed]
HistRender ==
    /\ hist_pc = "render"
    /\ hist_result' = [i \in 1..Len(trimmed) |-> Render(trimmed[i])]
    /\ hist_pc' = "returned"
    /\ UNCHANGED <<history, hist_pos, running_total, trimmed, notHist>>

(***************************************************************************)
(* Inputs of _prepare_history.                                             *)
(***************************************************************************)
Roles == {"user", "model"}
Contents ==
    { Rep("A", 16000),                \* 4000 tokens
      Rep("B", 16004),                \* 4001 tokens
      Rep("C", 10),                   \* 3 tokens
      Rep(" ", 3) }                   \* whitespace only: 0 tokens

AsmIdle ==
    /\ matches = <<>>
    /\ active_matches = <<>>
    /\ asm_pc = "idle"
    /\ asm_result = <<>>

InitHistory ==
    /\ \E n \in 0..MaxHistory :
         \E f \in [1..n -> Roles \X Contents] :
            history = [i \in 1..n |-> [role |-> f[i][1], content |-> f[i][2]]]
    /\ hist_pos = 0
    /\ running_total = 0
    /\ trimmed = <<>>
    /\ hist_pc = "start"
    /\ hist_result = <<>>
    /\ AsmIdle
    /\ ChunkIdle
    /\ SM2Idle
    /\ RouteIdle
    /\ DescIdle
    /\ EmbedIdle
    /\ ChatIdle
    /\ DocIdle

NextHistory ==
    \/ HistReturnEmpty
    \/ HistEnterLoop
    \/ HistKeep
    \/ HistBreak
    \/ HistExhausted
    \/ HistRender

SpecHistory == InitHistory /\ [][NextHistory]_vars

(***************************************************************************)
(* Properties of _prepare_history.                                         *)
(***************************************************************************)
\* the last k messages of the history, rendered
RenderedSuffix(k) ==
    [i \in 1..k |-> [role  |-> history[Len(history) - k + i].role,
                     parts |-> <<history[Len(history) - k + i].content>>]]

RECURSIVE SuffixTokens(_)
\* summed per-turn token counts of the last k messages
SuffixTokens(k) ==
    IF k = 0 THEN 0
    ELSE count_tokens(history[Len(history) - k + 1].content) + SuffixTokens(k - 1)

\* C6: the result is a contiguous suffix of the history in chronological
\* order, each turn rendered as {role, parts: [content]} unchanged; an empty
\* history gives an empty result.
C6_ReturnsRenderedSuffix ==
    hist_pc = "returned" =>
        \E k \in 0..Len(history) : hist_result = RenderedSuffix(k)

\* C6 witness: a proper suffix of two turns with different roles and contents
C6_Witness ==
    /\ hist_pc = "returned"
    /\ Len(history) = 3
    /\ Len(hist_result) = 2
    /\ hist_result[1].role # hist_result[2].role
    /\ hist_result[1].parts # hist_result[2].parts

\* C7: the kept turns are the longest suffix whose summed per-turn token
\* counts stay within MAX_HISTORY_TOKENS; when a turn is dropped, adding the
\* newest dropped turn would exceed the budget.
C7_LongestSuffixWithinBudget ==
    hist_pc = "returned" =>
        LET k == Len(hist_result)
        IN  /\ SuffixTokens(k) <= MAX_HISTORY_TOKENS
            /\ k < Len(history) => SuffixTokens(k + 1) > MAX_HISTORY_TOKENS
            /\ \A k2 \in (k + 1)..Len(history) :
                  SuffixTokens(k2) > MAX_HISTORY_TOKENS

\* C7 witness: the scan stopped at a turn that overflows although the
\* non-empty turn before it would still fit next to the kept one
C7_Witness ==
    /\ hist_pc = "returned"
    /\ Len(history) = 3
    /\ Len(hist_result) = 1
    /\ count_tokens(history[1].content) > 0
    /\ SuffixTokens(1) + count_tokens(history[1].content) <= MAX_HISTORY_TOKENS

(***************************************************************************)
(* chunk_text and get_chunk_count                                          *)
(***************************************************************************)
RECURSIVE EncodeRun(_, _)
\* tokens of a run of n equal characters: full tokens, then the remainder
EncodeRun(c, n) ==
    IF n <= CHARS_PER_TOKEN THEN <<[c |-> c, n |-> n]>>
    ELSE <<[c |-> c, n |-> CHARS_PER_TOKEN]>> \o EncodeRun(c, n - CHARS_PER_TOKEN)

RECURSIVE Encode(_)
\* encoder.encode(text)
Encode(t) ==
    IF t = <<>> THEN <<>> ELSE EncodeRun(t[1].c, t[1].n) \o Encode(Tail(t))

RECURSIVE Decode(_)
\* encoder.decode(chunk_tokens): the token strings concatenated
Decode(toks) ==
    IF toks = <<>> THEN <<>>
    ELSE Concat(Rep(toks[1].c, toks[1].n), Decode(Tail(toks)))

RECURSIVE DropChars(_, _)
\* text[k:]
DropChars(t, k) ==
    IF k = 0 \/ t = <<>> THEN t
    ELSE IF t[1].n <= k THEN DropChars(Tail(t), k - t[1].n)
    ELSE <<[c |-> t[1].c, n |-> t[1].n - k]>> \o Tail(t)

RECURSIVE TakeChars(_, _)
\* text[:k]
TakeChars(t, k) ==
    IF k = 0 \/ t = <<>> THEN <<>>
    ELSE IF t[1].n <= k THEN <<t[1]>> \o TakeChars(Tail(t), k - t[1].n)
    ELSE <<[c |-> t[1].c, n |-> k]>>

\* text[a:b] for 0 <= a <= b
Slice(t, a, b) == TakeChars(DropChars(t, a), b - a)

Min(a, b) == IF a <= b THEN a ELSE b
Max(a, b) == IF a >= b THEN a ELSE b

\* the three ValueError guards, in source order
InvalidParams == chunk_size < 1 \/ overlap < 0 \/ chunk_size <= overlap

\* variables only written by some of the actions below
chunkAux == <<encoding_known, windows, skipped, counted_tokens>>

\* get_encoder: the requested encoding, else the cl100k_base substitute
get_encoder ==
    IF encoder_fails THEN "raise"
    ELSE IF encoding_known THEN "requested" ELSE "cl100k_base"

\* mutant: the 4 characters per token ratio is forgotten
CharsFor_one(n) == n

\* chunk_size * 4, overlap * 4
CharsFor(n) == n * CHARS_PER_TOKEN

\* mutant: the window advances by a whole chunk, the overlap is forgotten
WindowStep_nooverlap(size, ovl) == size

\* mutant: the window start is not advanced
WindowStep_stalled(size, ovl) == 0

\* mutant: the window advances one position too far
WindowStep_plusone(size, ovl) == size - ovl + 1

\* start_idx += (chunk_size - overlap)
WindowStep(size, ovl) == size - ovl

\* chunk_text: if not text or not text.strip(): return []
ChunkReturnBlank ==
    /\ chunk_pc = "start"
    /\ IsBlank(text)
    /\ chunk_outcome' = "returned"
    /\ chunks' = <<>>
    /\ chunk_pc' = "count"
    /\ UNCHANGED <<text, chunk_size, overlap, encoder_fails, tokens, start_idx,
                   decode_failed, count_outcome, chunk_count, chunkAux, notChunk>>

\* chunk_text: raise ValueError
ChunkRaiseInvalid ==
    /\ chunk_pc = "start"
    /\ ~IsBlank(text)
    /\ InvalidParams
    /\ chunk_outcome' = "raised"
    /\ chunk_pc' = "count"
    /\ UNCHANGED <<text, chunk_size, overlap, encoder_fails, tokens, start_idx,
                   chunks, decode_failed, count_outcome, chunk_count, chunkAux, notChunk>>

\* chunk_text: len(tokens) <= chunk_size: return [text]
ChunkShort ==
    /\ chunk_pc = "start"
    /\ ~IsBlank(text)
    /\ ~InvalidParams
    /\ ~encoder_fails
    /\ Len(Encode(text)) <= chunk_size
    /\ tokens' = Encode(text)
    /\ chunks' = <<text>>
    /\ windows' = <<[s |-> 0, e |-> Len(Encode(text))]>>
    /\ chunk_outcome' = "returned"
    /\ chunk_pc' = "count"
    /\ UNCHANGED <<text, chunk_size, overlap, encoder_fails, start_idx,
                   decode_failed, count_outcome, chunk_count, encoding_known, skipped, counted_tokens, notChunk>>

\* chunk_text: enter the sliding window loop
ChunkEnterWindow ==
    /\ chunk_pc = "start"
    /\ ~IsBlank(text)
    /\ ~InvalidParams
    /\ ~encoder_fails
    /\ Len(Encode(text)) > chunk_size
    /\ tokens' = Encode(text)
    /\ chunks' = <<>>
    /\ start_idx' = 0
    /\ chunk_pc' = "window"
    /\ UNCHANGED <<text, chunk_size, overlap, encoder_fails, chunk_outcome,
                   decode_failed, count_outcome, chunk_count, chunkAux, notChunk>>

\* chunk_text: the encoder raised: enter the character fallback loop
ChunkEnterFallback ==
    /\ chunk_pc = "start"
    /\ ~IsBlank(text)
    /\ ~InvalidParams
    /\ encoder_fails
    /\ chunks' = <<>>
    /\ start_idx' = 0
    /\ chunk_pc' = "fallback"
    /\ UNCHANGED <<text, chunk_size, overlap, encoder_fails, tokens, chunk_outcome,
                   decode_failed, count_outcome, chunk_count, chunkAux, notChunk>>

\* advance the window; leave the loop once the start passes the end
WindowAdvance(limit, step) ==
    /\ start_idx' = start_idx + step
    /\ IF start_idx + step >= limit
       THEN chunk_outcome' = "returned" /\ chunk_pc' = "count"
       ELSE UNCHANGED <<chunk_outcome, chunk_pc>>

\* one iteration of the sliding window loop, the window decodes
ChunkWindowDecoded ==
    /\ chunk_pc = "window"
    /\ start_idx < Len(tokens)
    /\ LET end_idx == Min(start_idx + chunk_size, Len(tokens))
           chunk_tokens == SubSeq(tokens, start_idx + 1, end_idx)
       IN  /\ chunks' = Append(chunks, Decode(chunk_tokens))
           /\ windows' = Append(windows, [s |-> start_idx, e |-> end_idx])
    /\ WindowAdvance(Len(tokens), WindowStep(chunk_size, overlap))
    /\ UNCHANGED <<text, chunk_size, overlap, encoder_fails, tokens,
                   decode_failed, count_outcome, chunk_count, encoding_known, skipped, counted_tokens, notChunk>>

\* mutant: a decode failure ends the loop with the chunks collected so far
ChunkWindowSkipped_abort ==
    /\ chunk_pc = "window"
    /\ start_idx < Len(tokens)
    /\ decode_failed' = TRUE
    /\ skipped' = skipped \cup {start_idx}
    /\ chunk_outcome' = "returned"
    /\ chunk_pc' = "count"
    /\ UNCHANGED <<text, chunk_size, overlap, encoder_fails, tokens, chunks, start_idx,
                   count_outcome, chunk_count, encoding_known, windows, counted_tokens,
                   notChunk>>

\* one iteration of the sliding window loop, decode raises: the chunk is skipped
ChunkWindowSkipped ==
    /\ chunk_pc = "window"
    /\ start_idx < Len(tokens)
    /\ decode_failed' = TRUE
    /\ skipped' = skipped \cup {start_idx}
    /\ WindowAdvance(Len(tokens), WindowStep(chunk_size, overlap))
    /\ UNCHANGED <<text, chunk_size, overlap, encoder_fails, tokens, chunks,
                   count_outcome, chunk_count, encoding_known, windows, counted_tokens, notChunk>>

\* one iteration of the character fallback loop
ChunkFallbackWindow ==
    /\ chunk_pc = "fallback"
    /\ start_idx < TextLen(text)
    /\ LET char_chunk_size == CharsFor(chunk_size)
           char_overlap == CharsFor(overlap)
           end_idx == Min(start_idx + char_chunk_size, TextLen(text))
       IN  /\ chunks' = Append(chunks, Slice(text, start_idx, end_idx))
           /\ windows' = Append(windows, [s |-> start_idx, e |-> end_idx])
           /\ WindowAdvance(TextLen(text), WindowStep(char_chunk_size, char_overlap))
    /\ UNCHANGED <<text, chunk_size, overlap, encoder_fails, tokens,
                   decode_failed, count_outcome, chunk_count, encoding_known, skipped, counted_tokens, notChunk>>

\* get_chunk_count: if not text or not text.strip(): return 0
CountReturnBlank ==
    /\ chunk_pc = "count"
    /\ IsBlank(text)
    /\ count_outcome' = "returned"
    /\ chunk_count' = 0
    /\ chunk_pc' = "done"
    /\ UNCHANGED <<text, chunk_size, overlap, encoder_fails, tokens, start_idx,
                   chunks, chunk_outcome, decode_failed, chunkAux, notChunk>>

\* get_chunk_count: raise ValueError
CountRaiseInvalid ==
    /\ chunk_pc = "count"
    /\ ~IsBlank(text)
    /\ InvalidParams
    /\ count_outcome' = "raised"
    /\ chunk_pc' = "done"
    /\ UNCHANGED <<text, chunk_size, overlap, encoder_fails, tokens, start_idx,
                   chunks, chunk_outcome, decode_failed, chunk_count, chunkAux, notChunk>>

\* get_chunk_count: the token path
CountTokens ==
    /\ chunk_pc = "count"
    /\ ~IsBlank(text)
    /\ ~InvalidParams
    /\ ~encoder_fails
    /\ LET total_tokens == Len(Encode(text))
       IN  chunk_count' =
             IF total_tokens <= chunk_size THEN 1
             ELSE Max(1, CeilDiv(total_tokens - overlap, chunk_size - overlap))
    /\ count_outcome' = "returned"
    /\ chunk_pc' = "done"
    /\ UNCHANGED <<text, chunk_size, overlap, encoder_fails, tokens, start_idx,
                   chunks, chunk_outcome, decode_failed, chunkAux, notChunk>>

\* get_chunk_count: the encoder raised: character approximation
CountFallback ==
    /\ chunk_pc = "count"
    /\ ~IsBlank(text)
    /\ ~InvalidParams
    /\ encoder_fails
    /\ LET char_chunk_size == CharsFor(chunk_size)
           char_overlap == CharsFor(overlap)
       IN  chunk_count' =
             Max(1, CeilDiv(TextLen(text) - char_overlap, char_chunk_size - char_overlap))
    /\ count_outcome' = "returned"
    /\ chunk_pc' = "done"
    /\ UNCHANGED <<text, chunk_size, overlap, encoder_fails, tokens, start_idx,
                   chunks, chunk_outcome, decode_failed, chunkAux, notChunk>>

(***************************************************************************)
\* count_tokens(text): 0 for blank text, len(text) // 4 when the encoder raises
count_tokens_call(t, fails) ==
    IF IsBlank(t) THEN 0
    ELSE IF fails THEN TextLen(t) \div CHARS_PER_TOKEN
    ELSE NumTokens(t)

\* count_tokens(text) called on the same text
TokensCounted ==
    /\ chunk_pc = "done"
    /\ counted_tokens' = count_tokens_call(text, encoder_fails)
    /\ chunk_pc' = "end"
    /\ UNCHANGED <<text, chunk_size, overlap, encoder_fails, tokens, start_idx,
                   chunks, chunk_outcome, decode_failed, count_outcome, chunk_count,
                   encoding_known, windows, skipped, notChunk>>

(* Inputs of chunk_text / get_chunk_count.                                 *)
(***************************************************************************)
Texts ==
    { <<>>,                                                   \* ""
      Rep(" ", 2) \o Rep("\n", 1),                            \* whitespace only
      Rep("a", 3),                                            \* 1 token
      Rep("a", 5) \o Rep(" ", 1),                             \* 3 tokens
      Rep("a", 6) \o Rep(" ", 1) \o Rep("b", 5),              \* 5 tokens
      Rep("a", 9) \o Rep(" ", 1) \o Rep("b", 7) \o Rep("-", 3) \* 7 tokens
    }

InitChunk ==
    /\ text \in Texts
    /\ chunk_size \in -1..MaxChunkSize
    /\ overlap \in -1..MaxChunkSize
    /\ encoder_fails \in BOOLEAN
    /\ chunk_pc = "start"
    /\ tokens = <<>>
    /\ start_idx = 0
    /\ chunks = <<>>
    /\ chunk_outcome = "none"
    /\ decode_failed = FALSE
    /\ count_outcome = "none"
    /\ chunk_count = 0
    /\ encoding_known \in BOOLEAN
    /\ windows = <<>>
    /\ skipped = {}
    /\ counted_tokens = 0
    /\ AsmIdle
    /\ HistIdle
    /\ SM2Idle
    /\ RouteIdle
    /\ DescIdle
    /\ EmbedIdle
    /\ ChatIdle
    /\ DocIdle

NextChunk ==
    \/ ChunkReturnBlank
    \/ ChunkRaiseInvalid
    \/ ChunkShort
    \/ ChunkEnterWindow
    \/ ChunkEnterFallback
    \/ ChunkWindowDecoded
    \/ ChunkWindowSkipped
    \/ ChunkFallbackWindow
    \/ CountReturnBlank
    \/ CountRaiseInvalid
    \/ CountTokens
    \/ CountFallback
    \/ TokensCounted

SpecChunk == InitChunk /\ [][NextChunk]_vars

\* the calls are synchronous: a started call runs to its end
SpecChunkFair == SpecChunk /\ WF_vars(NextChunk)

(***************************************************************************)
(* Properties of chunk_text and get_chunk_count.                           *)
(***************************************************************************)
\* chunk_text has finished (returned or raised)
ChunkTextDone == chunk_pc \in {"count", "done", "end"}

\* the tokens at positions [a, b) of the encoded argument
TokenWindow(a, b) == SubSeq(Encode(text), a + 1, b)

\* C8: valid parameters, non-blank text of N tokens, every window decoded:
\* N <= chunk_size gives the single chunk text; otherwise there is exactly one
\* chunk for each k >= 0 with k*(chunk_size-overlap) < N, chunk k holding the
\* tokens [k*(chunk_size-overlap), min(k*(chunk_size-overlap)+chunk_size, N)),
\* at most chunk_size of them.
C8_SlidingWindows ==
    (ChunkTextDone /\ ~InvalidParams /\ ~IsBlank(text)
       /\ ~encoder_fails /\ ~decode_failed) =>
        LET N == Len(Encode(text))
            step == chunk_size - overlap
        IN  /\ chunk_outcome = "returned"
            /\ IF N <= chunk_size
               THEN chunks = <<text>>
               ELSE /\ \A k \in 0..(N - 1) :
                         k * step < N <=> k + 1 \in DOMAIN chunks
                    /\ \A k \in 0..(Len(chunks) - 1) :
                         /\ chunks[k + 1] =
                              Decode(TokenWindow(k * step, Min(k * step + chunk_size, N)))
                         /\ Len(TokenWindow(k * step, Min(k * step + chunk_size, N)))
                              <= chunk_size
                    /\ Len(chunks) <= N

\* C8 witness: overlapping windows, the last one clipped to the remaining tokens
C8_Witness ==
    /\ ChunkTextDone /\ ~encoder_fails /\ ~decode_failed
    /\ chunk_outcome = "returned"
    /\ overlap > 0
    /\ Len(chunks) >= 3
    /\ Len(Encode(chunks[Len(chunks)])) < chunk_size

\* C9 (as claimed): with chunk_size < 1, overlap < 0 or chunk_size <= overlap,
\* chunk_text and get_chunk_count raise for every text, also an empty or
\* whitespace-only one, and return no chunk list and no count.
C9_InvalidParamsAlwaysRaise ==
    InvalidParams =>
        /\ ChunkTextDone => chunk_outcome = "raised" /\ chunks = <<>>
        /\ chunk_pc = "done" => count_outcome = "raised"

\* C10 (as claimed): for valid parameters the value of get_chunk_count and the
\* number of chunks chunk_text returns differ by at most 1 (read on the calls
\* where the tokenizer works: the text encodes and every window decodes).
C10_CountWithinOne ==
    (chunk_pc = "done" /\ ~InvalidParams /\ ~encoder_fails /\ ~decode_failed) =>
        /\ chunk_count - Len(chunks) <= 1
        /\ Len(chunks) - chunk_count <= 1

\* both calls have finished
BothDone == chunk_pc \in {"done", "end"}

\* C11 (as claimed): get_chunk_count returns exactly the number of chunks
\* chunk_text produces for the same arguments (read on the calls where the
\* tokenizer works: the text encodes and every window decodes).
C11_CountEqualsChunks ==
    (BothDone /\ ~InvalidParams /\ ~encoder_fails /\ ~decode_failed) =>
        /\ count_outcome = "returned"
        /\ chunk_outcome = "returned"
        /\ chunk_count = Len(chunks)

\* C12: for valid parameters chunk_text terminates; every loop step moves the
\* window start forward by chunk_size - overlap >= 1 (by 4*(chunk_size -
\* overlap) characters in the fallback loop) and the loop is left exactly
\* when the start reaches or passes the end of the input.
C12_ChunkTerminates ==
    /\ <>ChunkTextDone
    /\ [][ /\ chunk_pc = "window" =>
                /\ chunk_size - overlap >= 1
                /\ start_idx' = start_idx + (chunk_size - overlap)
                /\ chunk_pc' # "window" <=> start_idx' >= Len(tokens)
           /\ chunk_pc = "fallback" =>
                /\ start_idx' = start_idx + CHARS_PER_TOKEN * (chunk_size - overlap)
                /\ start_idx' > start_idx
                /\ chunk_pc' # "fallback" <=> start_idx' >= TextLen(text)
         ]_vars

\* C12 witness: a sliding window loop left after at least three steps
C12_Witness ==
    /\ ChunkTextDone
    /\ chunk_outcome = "returned"
    /\ Len(tokens) > chunk_size
    /\ start_idx >= Len(tokens)
    /\ Len(chunks) + Cardinality(skipped) >= 3

\* consecutive returned chunks share a position of the source
ConsecutiveChunksShare ==
    \A i \in 1..(Len(windows) - 1) : windows[i + 1].s < windows[i].e

RECURSIVE DecodedFrom(_)
\* the decoded windows from window k on, the skipped ones left out
DecodedFrom(k) ==
    LET N == Len(Encode(text))
        a == k * (chunk_size - overlap)
    IN  IF a >= N THEN <<>>
        ELSE (IF a \in skipped THEN <<>>
              ELSE <<Decode(TokenWindow(a, Min(a + chunk_size, N)))>>)
             \o DecodedFrom(k + 1)

\* C14: a decode failure skips only its own window: the call still returns,
\* with every other window decoded, in the original order.
C14_SkipOnlyFailedWindow ==
    (ChunkTextDone /\ ~InvalidParams /\ ~IsBlank(text) /\ ~encoder_fails
       /\ Len(Encode(text)) > chunk_size) =>
        /\ chunk_outcome = "returned"
        /\ chunks = DecodedFrom(0)

\* C14 witness: a window in the middle was skipped, its neighbours returned
C14_Witness ==
    /\ ChunkTextDone /\ chunk_outcome = "returned"
    /\ Cardinality(skipped) = 1
    /\ Len(chunks) >= 2
    /\ \E a \in skipped : windows[1].s < a /\ a < windows[Len(windows)].s

RECURSIVE CharChunksFrom(_)
\* the character windows from window k on
CharChunksFrom(k) ==
    LET L == TextLen(text)
        a == k * CHARS_PER_TOKEN * (chunk_size - overlap)
    IN  IF a >= L THEN <<>>
        ELSE <<Slice(text, a, Min(a + CHARS_PER_TOKEN * chunk_size, L))>>
             \o CharChunksFrom(k + 1)

InvalidQuality(q) == ~q.is_int \/ q.v < MIN_QUALITY \/ q.v > MAX_QUALITY

\* mutant: repetitions and interval are validated before quality
Validate_reordered(q, cur) ==
    IF cur.repetitions < 0 THEN "InvalidRepetitions"
    ELSE IF cur.interval < 1 THEN "InvalidInterval"
    ELSE IF InvalidQuality(q) THEN "InvalidQuality"
    ELSE "ok"

\* the three ValueError guards, in source order
Validate(q, cur) ==
    IF InvalidQuality(q) THEN "InvalidQuality"
    ELSE IF cur.repetitions < 0 THEN "InvalidRepetitions"
    ELSE IF cur.interval < 1 THEN "InvalidInterval"
    ELSE "ok"

\* current_efactor = max(current_efactor, MIN_EFACTOR)
ClampEfactor(e) == IF e < MIN_EFACTOR THEN MIN_EFACTOR ELSE e

\* mutant: the quadratic term of the increment is dropped
EfactorDelta_linear(q) == LET q_delta == 5 - q IN 10 - q_delta * 8

\* 0.1 - q_delta * (0.08 + q_delta * 0.02), in hundredths
EfactorDelta(q) == LET q_delta == 5 - q IN 10 - q_delta * (8 + q_delta * 2)

\* mutant: the updated efactor is not floored
FloorEfactor_none(e) == e

\* if new_efactor < MIN_EFACTOR: new_efactor = MIN_EFACTOR
FloorEfactor(e) == IF e < MIN_EFACTOR THEN MIN_EFACTOR ELSE e

\* new_efactor
NewEfactor(q, e) == FloorEfactor(ClampEfactor(e) + EfactorDelta(q))

\* mutant: a grade of exactly 3 counts as failing
IsPassing_above(q) == q > PASSING_QUALITY

\* not (quality < PASSING_QUALITY)
IsPassing(q) == ~(q < PASSING_QUALITY)

\* round(interval * efactor) with efactor in hundredths: half to even
RoundProduct(interval, e) ==
    LET x == interval * e
        whole == x \div 100
        rest == x % 100
    IN  IF rest < 50 THEN whole
        ELSE IF rest > 50 THEN whole + 1
        ELSE IF whole % 2 = 0 THEN whole ELSE whole + 1

\* mutant: the interval is multiplied by the efactor the card came in with
LadderInterval_oldefactor(new_repetitions, current_interval, new_efactor) ==
    IF new_repetitions = 1 THEN 1
    ELSE IF new_repetitions = 2 THEN 6
    ELSE RoundProduct(current_interval, ClampEfactor(card.efactor))

\* mutant: the first pass gives 6 days and the second 1 day
LadderInterval_sixfirst(new_repetitions, current_interval, new_efactor) ==
    IF new_repetitions = 1 THEN 6
    ELSE IF new_repetitions = 2 THEN 1
    ELSE RoundProduct(current_interval, new_efactor)

\* mutant: from the third pass on the interval is divided by the efactor
LadderInterval_shrink(new_repetitions, current_interval, new_efactor) ==
    IF new_repetitions = 1 THEN 1
    ELSE IF new_repetitions = 2 THEN 6
    ELSE (current_interval * 100) \div new_efactor

\* the interval of a passing review before the lower and upper clamps
LadderInterval(new_repetitions, current_interval, new_efactor) ==
    IF new_repetitions = 1 THEN 1
    ELSE IF new_repetitions = 2 THEN 6
    ELSE RoundProduct(current_interval, new_efactor)

\* mutant: the interval is not capped
CapInterval_none(i) == i

\* if new_interval > MAX_INTERVAL_DAYS: new_interval = MAX_INTERVAL_DAYS
CapInterval(i) == IF i > MAX_INTERVAL_DAYS THEN MAX_INTERVAL_DAYS ELSE i

\* the SM2Result of an accepted call (next_review = now + interval days)
calculate_sm2(q, cur) ==
    LET new_efactor == NewEfactor(q, cur.efactor)
        new_repetitions == IF IsPassing(q) THEN cur.repetitions + 1 ELSE 0
        ladder == LadderInterval(new_repetitions, cur.interval, new_efactor)
        new_interval ==
            IF IsPassing(q) THEN (IF ladder < 1 THEN 1 ELSE ladder) ELSE 1
    IN  [efactor |-> new_efactor,
         repetitions |-> new_repetitions,
         interval |-> CapInterval(new_interval)]

\* quality arguments tried: the integers -1..6 and one non-integer (3.0)
Qualities ==
    { [is_int |-> TRUE, v |-> n] : n \in (MIN_QUALITY - 1)..(MAX_QUALITY + 1) }
        \cup { [is_int |-> FALSE, v |-> 3] }

\* a review whose arguments pass validation: the result replaces the schedule
ReviewAccepted ==
    /\ reviews < MaxReviews
    /\ \E q \in Qualities :
          /\ Validate(q, card) = "ok"
          /\ quality' = q
          /\ card' = calculate_sm2(q.v, card)
    /\ current' = card
    /\ sm_outcome' = "ok"
    /\ reviews' = reviews + 1
    /\ UNCHANGED notSM2

\* a review rejected with ValueError: no result, the schedule stays as it was
ReviewRejected ==
    /\ reviews < MaxReviews
    /\ \E q \in Qualities :
          /\ Validate(q, card) # "ok"
          /\ quality' = q
          /\ sm_outcome' = Validate(q, card)
    /\ current' = card
    /\ reviews' = reviews + 1
    /\ UNCHANGED <<card, notSM2>>

(***************************************************************************)
(* Inputs of calculate_sm2: any stored schedule, valid or not.             *)
(***************************************************************************)
StoredEfactors    == {100, MIN_EFACTOR, DEFAULT_EFACTOR}
StoredRepetitions == {-1, 0, 1, 2}
StoredIntervals   == {0, 1, 6, 2000, 5000}

InitSM2 ==
    /\ card \in [efactor : StoredEfactors, repetitions : StoredRepetitions,
                 interval : StoredIntervals]
    /\ current = card
    /\ quality = [is_int |-> TRUE, v |-> 0]
    /\ sm_outcome = "none"
    /\ reviews = 0
    /\ AsmIdle
    /\ HistIdle
    /\ ChunkIdle
    /\ RouteIdle
    /\ DescIdle
    /\ EmbedIdle
    /\ ChatIdle
    /\ DocIdle

NextSM2 == ReviewAccepted \/ ReviewRejected

SpecSM2 == InitSM2 /\ [][NextSM2]_vars

(***************************************************************************)
(* A flashcard as it is created (DEFAULT_EFACTOR, DEFAULT_REPETITIONS,     *)
(* DEFAULT_INTERVAL) and then reviewed, each result fed to the next call.  *)
(***************************************************************************)
InitSM2Default ==
    /\ SM2Idle
    /\ RouteIdle
    /\ DescIdle
    /\ EmbedIdle
    /\ ChatIdle
    /\ DocIdle
    /\ AsmIdle
    /\ HistIdle
    /\ ChunkIdle

SpecSM2Default == InitSM2Default /\ [][NextSM2]_vars

(***************************************************************************)
(* Claims about calculate_sm2, checked under SpecSM2.                      *)
(***************************************************************************)
\* the last call was accepted: card is its result, current its arguments
Reviewed == sm_outcome = "ok"

\* C16: an accepted review graded 0, 1 or 2 yields repetitions 0 and
\* interval 1; the resulting repetitions are 0 exactly when the grade is
\* below 3, and a passing review yields the prior repetitions plus one.
C16_FailResetsPassIncrements ==
    Reviewed =>
        /\ quality.v < 3 => (card.repetitions = 0 /\ card.interval = 1)
        /\ card.repetitions = 0 <=> quality.v < 3
        /\ quality.v >= 3 =>
              (card.repetitions = current.repetitions + 1 /\ card.repetitions >= 1)

\* a failing review of a card that had passes and a long interval
C16_Witness ==
    /\ Reviewed
    /\ quality.v = 2
    /\ current.repetitions >= 2
    /\ current.interval > 1
    /\ card.repetitions = 0

\* C17: after a passing review the interval is 1 when the new repetitions
\* are 1, 6 when they are 2 whatever the prior interval, and otherwise
\* round(prior interval * new efactor), at least 1 and at most 3650.
C17_IntervalLadder ==
    (Reviewed /\ quality.v >= 3) =>
        card.interval =
            IF current.repetitions + 1 = 1 THEN 1
            ELSE IF current.repetitions + 1 = 2 THEN 6
            ELSE Min(MAX_INTERVAL_DAYS,
                     Max(1, RoundProduct(current.interval, card.efactor)))

\* a third or later pass where the old and the new efactor give different
\* intervals, below the cap
C17_Witness ==
    /\ Reviewed
    /\ quality.v >= 3
    /\ card.repetitions >= 3
    /\ card.interval < MAX_INTERVAL_DAYS
    /\ card.interval = RoundProduct(current.interval, card.efactor)
    /\ card.interval # RoundProduct(current.interval, ClampEfactor(current.efactor))

\* C18: every accepted review, a stored efactor below 1.3 included, yields
\* an efactor of at least 1.3, and the efactor stays there over any
\* sequence of reviews.
C18_EfactorFloor ==
    /\ Reviewed => card.efactor >= MIN_EFACTOR
    /\ (reviews > 0 /\ current.efactor >= MIN_EFACTOR) => card.efactor >= MIN_EFACTOR
    /\ (Reviewed /\ current.efactor < MIN_EFACTOR) =>
          card.efactor = Max(MIN_EFACTOR, MIN_EFACTOR + EfactorDelta(quality.v))

\* a stored efactor below the floor was accepted and a blackout followed at
\* the floor
C18_Witness ==
    /\ Reviewed
    /\ reviews = MaxReviews
    /\ quality.v = 0
    /\ current.efactor = MIN_EFACTOR
    /\ card.efactor = MIN_EFACTOR

\* a stored efactor below the floor is accepted and raised
C18_WitnessClamped ==
    /\ Reviewed
    /\ current.efactor < MIN_EFACTOR
    /\ quality.v = 5
    /\ card.efactor = MIN_EFACTOR + 10

\* C19: every accepted review yields an interval between 1 and 3650,
\* also when the prior interval is far above 3650.
C19_IntervalBounds ==
    Reviewed => (1 <= card.interval /\ card.interval <= MAX_INTERVAL_DAYS)

\* a third or later pass of a card stored with an interval above the cap
C19_Witness ==
    /\ Reviewed
    /\ quality.v >= 3
    /\ current.repetitions >= 2
    /\ current.interval > MAX_INTERVAL_DAYS
    /\ card.interval = MAX_INTERVAL_DAYS

\* C20: a call is rejected, the schedule left as it was, for a quality
\* that is not an integer in 0..5, else for negative repetitions, else for
\* an interval below 1, each with its own failure and in that order; an
\* efactor below 1.3 never makes a call fail.
C20_RejectsInOrder ==
    reviews > 0 =>
        /\ sm_outcome =
              IF ~quality.is_int \/ quality.v < 0 \/ quality.v > 5 THEN "InvalidQuality"
              ELSE IF current.repetitions < 0 THEN "InvalidRepetitions"
              ELSE IF current.interval < 1 THEN "InvalidInterval"
              ELSE "ok"
        /\ sm_outcome # "ok" => card = current

\* all three preconditions violated at once: the quality failure is reported
C20_Witness ==
    /\ sm_outcome = "InvalidQuality"
    /\ current.repetitions < 0
    /\ current.interval < 1
    /\ current.efactor < MIN_EFACTOR
    /\ card = current

\* repetitions and interval violated: the repetitions failure is reported
C20_WitnessRepetitions ==
    /\ sm_outcome = "InvalidRepetitions"
    /\ current.interval < 1

\* only the interval violated
C20_WitnessInterval == sm_outcome = "InvalidInterval"

\* C21: before the floor at 1.3 an accepted review changes the (clamped)
\* efactor by +0.10, 0.00, -0.14, -0.32, -0.54, -0.80 for quality 5..0;
\* a 4 on the default schedule gives 2.50 / 1 / 1 and a 3 gives 2.36.
C21_EfactorDeltas ==
    Reviewed =>
        LET delta == CASE quality.v = 5 -> 10
                       [] quality.v = 4 -> 0
                       [] quality.v = 3 -> -14
                       [] quality.v = 2 -> -32
                       [] quality.v = 1 -> -54
                       [] quality.v = 0 -> -80
            before == Max(current.efactor, MIN_EFACTOR)
        IN  /\ card.efactor = Max(before + delta, MIN_EFACTOR)
            /\ before + delta >= MIN_EFACTOR => card.efactor - before = delta
            /\ (current = [efactor |-> 250, repetitions |-> 0, interval |-> 1]
                  /\ quality.v = 4) =>
                  card = [efactor |-> 250, repetitions |-> 1, interval |-> 1]
            /\ (current.efactor = 250 /\ quality.v = 3) => card.efactor = 236

\* a 3 on the default schedule
C21_Witness ==
    /\ Reviewed
    /\ current = [efactor |-> 250, repetitions |-> 0, interval |-> 1]
    /\ quality.v = 3
    /\ card.efactor = 236

\* every grade's increment is seen above the floor
C21_WitnessBlackout ==
    /\ Reviewed
    /\ quality.v = 0
    /\ card.efactor = current.efactor - 80

\* C22: from the default schedule, each result fed back, a passing review
\* never yields an interval below the one before it: a first pass gives 1,
\* a second 6, later ones a non-decreasing sequence.
C22_PassNeverShortens ==
    (Reviewed /\ quality.v >= 3) =>
        /\ card.interval >= current.interval
        /\ current.repetitions = 0 => card.interval = 1
        /\ current.repetitions = 1 => card.interval = 6

\* a fourth consecutive pass, longer than the third
C22_Witness ==
    /\ Reviewed
    /\ quality.v >= 3
    /\ card.repetitions >= 4
    /\ current.interval > 6
    /\ card.interval > current.interval

\* C29: from the default schedule, over any sequence of reviews, a
\* schedule with repetitions 0 or 1 has interval 1 and one with
\* repetitions 2 has interval 6.
C29_LadderInvariant ==
    /\ card.repetitions = 0 => card.interval = 1
    /\ card.repetitions = 1 => card.interval = 1
    /\ card.repetitions = 2 => card.interval = 6

\* a second pass reached after a lapse
C29_Witness ==
    /\ Reviewed
    /\ reviews >= 3
    /\ card.repetitions = 2
    /\ card.interval = 6

(***************************************************************************)
(* review_flashcard: a plain def route, run by the server on a thread per  *)
(* request.  Each request selects the row, runs calculate_sm2 on what it   *)
(* read and updates the row; nothing serialises two requests for one row.  *)
(***************************************************************************)
\* the select, the ownership check and calculate_sm2 on the values read
ReviewFetch(r) ==
    /\ review_pc[r] = "start"
    /\ \E db_error \in BOOLEAN :
          LET q == [is_int |-> TRUE, v |-> review_quality[r]] IN
          IF db_error THEN
              /\ review_pc' = [review_pc EXCEPT ![r] = "http500"]
              /\ UNCHANGED sm2_result
          ELSE IF ~flashcard_found THEN
              /\ review_pc' = [review_pc EXCEPT ![r] = "http404"]
              /\ UNCHANGED sm2_result
          ELSE IF Validate(q, flashcard) # "ok" THEN
              /\ review_pc' = [review_pc EXCEPT ![r] = "http500"]
              /\ UNCHANGED sm2_result
          ELSE
              /\ review_pc' = [review_pc EXCEPT ![r] = "update"]
              /\ sm2_result' = [sm2_result EXCEPT
                                   ![r] = calculate_sm2(review_quality[r], flashcard)]
    /\ UNCHANGED <<flashcard, flashcard_found, flashcard_before, review_quality, notRoute>>

\* the update of the row with the computed values; the reads that follow
\* (next due card, due count) change nothing and never fail the request
ReviewUpdate(r) ==
    /\ review_pc[r] = "update"
    /\ \E db_error \in BOOLEAN :
          IF db_error THEN
              /\ review_pc' = [review_pc EXCEPT ![r] = "http500"]
              /\ UNCHANGED flashcard
          ELSE
              /\ review_pc' = [review_pc EXCEPT ![r] = "done"]
              /\ flashcard' = sm2_result[r]
    /\ UNCHANGED <<flashcard_found, flashcard_before, review_quality, sm2_result, notRoute>>

\* rows a flashcard can hold: the default, schedules reached by reviews, and
\* one legacy row calculate_sm2 rejects
StoredFlashcards ==
    { [efactor |-> DEFAULT_EFACTOR, repetitions |-> DEFAULT_REPETITIONS,
       interval |-> DEFAULT_INTERVAL],
      [efactor |-> 250, repetitions |-> 1, interval |-> 1],
      [efactor |-> 260, repetitions |-> 2, interval |-> 6],
      [efactor |-> 130, repetitions |-> 3, interval |-> 16],
      [efactor |-> 250, repetitions |-> 0, interval |-> 0] }

InitRoute ==
    /\ flashcard \in StoredFlashcards
    /\ flashcard_found \in BOOLEAN
    /\ flashcard_before = flashcard
    /\ review_pc = [r \in Requests |-> "start"]
    /\ review_quality \in [Requests -> MIN_QUALITY..MAX_QUALITY]
    /\ sm2_result = [r \in Requests |-> flashcard]
    /\ AsmIdle
    /\ HistIdle
    /\ ChunkIdle
    /\ SM2Idle
    /\ DescIdle
    /\ EmbedIdle
    /\ ChatIdle
    /\ DocIdle

NextRoute == \E r \in Requests : ReviewFetch(r) \/ ReviewUpdate(r)

SpecRoute == InitRoute /\ [][NextRoute]_vars

\* both requests updated the row
BothReviewed == \A r \in Requests : review_pc[r] = "done"

\* the row after the review graded q1 and then the review graded q2
ReviewedInTurn(q1, q2) == calculate_sm2(q2, calculate_sm2(q1, flashcard_before))

\* C23: when two review requests for one flashcard overlap, the row they
\* leave equals the result of the two reviews applied one after the other
\* in some order.
C23_NoLostReview ==
    BothReviewed =>
        \/ flashcard = ReviewedInTurn(review_quality[1], review_quality[2])
        \/ flashcard = ReviewedInTurn(review_quality[2], review_quality[1])

(***************************************************************************)
(* format_interval_description                                             *)
(*                                                                         *)
(* The string "<count> <unit>" is kept as the record [count, unit].        *)
(***************************************************************************)
\* mutant: the quotient is truncated
RoundDiv_floor(n, d) == n \div d

\* round(n / d) for positive integers: to nearest, a tie to the even count
RoundDiv(n, d) ==
    LET whole == n \div d
        rest == n % d
    IN  IF 2 * rest < d THEN whole
        ELSE IF 2 * rest > d THEN whole + 1
        ELSE IF whole % 2 = 0 THEN whole ELSE whole + 1

\* name + ("s" if count != 1 else "")
Plural(name, n) == IF n # 1 THEN name \o "s" ELSE name

\* the returned string for interval >= 1
format_interval_description(interval) ==
    IF interval = 1 THEN [count |-> 1, unit |-> "day"]
    ELSE IF interval < 7 THEN [count |-> interval, unit |-> "days"]
    ELSE IF interval < 30 THEN
        LET weeks == RoundDiv(interval, 7)
        IN  [count |-> weeks, unit |-> Plural("week", weeks)]
    ELSE IF interval < 365 THEN
        LET months == RoundDiv(interval, 30)
        IN  [count |-> months, unit |-> Plural("month", months)]
    ELSE
        LET years == RoundDiv(interval, 365)
        IN  [count |-> years, unit |-> Plural("year", years)]

\* if interval <= 0: raise ValueError("interval must be >= 1")
DescribeRaise ==
    /\ describe_pc = "call"
    /\ describe_days <= 0
    /\ describe_pc' = "raised"
    /\ UNCHANGED <<describe_days, description, notDesc>>

DescribeReturn ==
    /\ describe_pc = "call"
    /\ ~(describe_days <= 0)
    /\ description' = format_interval_description(describe_days)
    /\ describe_pc' = "returned"
    /\ UNCHANGED <<describe_days, notDesc>>

InitDescribe ==
    /\ describe_days \in (-1..MaxDays) \cup {MAX_INTERVAL_DAYS}
    /\ describe_pc = "call"
    /\ description = NoDescription
    /\ AsmIdle
    /\ HistIdle
    /\ ChunkIdle
    /\ SM2Idle
    /\ RouteIdle
    /\ EmbedIdle
    /\ ChatIdle
    /\ DocIdle

NextDescribe == DescribeRaise \/ DescribeReturn

SpecDescribe == InitDescribe /\ [][NextDescribe]_vars

\* count is the integer nearest to days / per, the even one on a tie
NearestCount(n, per, c) ==
    \/ 2 * (n - c * per) < per /\ 2 * (c * per - n) < per
    \/ 2 * (n - c * per) = per /\ c % 2 = 0
    \/ 2 * (c * per - n) = per /\ c % 2 = 0

\* C24: the label is "1 day" for 1, "N days" for 2..6, round(days/7)
\* week(s) for 7..29, round(days/30) month(s) for 30..364, round(days/365)
\* year(s) from 365 on; the unit is singular exactly when the count is 1,
\* the count is never 0, and days <= 0 raises.
C24_DescribeInterval ==
    describe_pc # "call" =>
        LET d == describe_days
            c == description.count
            u == description.unit
        IN  /\ describe_pc = "raised" <=> d <= 0
            /\ describe_pc = "raised" => description = NoDescription
            /\ describe_pc = "returned" =>
                  /\ c >= 1
                  /\ d = 1 => (c = 1 /\ u = "day")
                  /\ (2 <= d /\ d <= 6) => (c = d /\ u = "days")
                  /\ (7 <= d /\ d <= 29) =>
                        (NearestCount(d, 7, c) /\ u \in {"week", "weeks"})
                  /\ (30 <= d /\ d <= 364) =>
                        (NearestCount(d, 30, c) /\ u \in {"month", "months"})
                  /\ d >= 365 =>
                        (NearestCount(d, 365, c) /\ u \in {"year", "years"})
                  /\ u \in {"day", "week", "month", "year"} <=> c = 1

\* 45 days is exactly one and a half months: the tie goes to "2 months"
C24_Witness ==
    /\ describe_pc = "returned"
    /\ describe_days = 45
    /\ description = [count |-> 2, unit |-> "months"]

\* the longest interval the scheduler produces
C24_WitnessYears ==
    /\ describe_pc = "returned"
    /\ describe_days = MAX_INTERVAL_DAYS
    /\ description = [count |-> 10, unit |-> "years"]

(***************************************************************************)
(* generate_embedding                                                      *)
(*                                                                         *)
(* An exception of an attempt is known by the markers its lowercased       *)
(* message holds: "rate_limit" for "429", "quota" or "rate limit",         *)
(* "api_key" for "api key" or "authentication", "invalid_input" for        *)
(* "invalid argument" or "invalid input".  The exceptions raised inside    *)
(* the try block itself (response shape, dimension mismatch) are among     *)
(* them.                                                                   *)
(***************************************************************************)
ErrorMarkers == {"rate_limit", "api_key", "invalid_input"}

\* "429" in error_message or "quota" in error_message or "rate limit" in error_message
IsRateLimited(markers) == "rate_limit" \in markers

\* mutant: one retry fewer is allowed
MayRetry_onefewer(n) == n < MAX_RETRIES - 1

\* if retry_count < MAX_RETRIES
MayRetry(n) == n < MAX_RETRIES

\* the guards before the loop and _initialize_gemini_client
EmbedValidate ==
    /\ embed_pc = "validate"
    /\ IF embed_args.text_empty THEN
           embed_pc' = "ValueError" /\ embed_raised' = "empty_text"
       ELSE IF ~embed_args.task_type_valid THEN
           embed_pc' = "ValueError" /\ embed_raised' = "task_type"
       ELSE IF embed_args.dimensions <= 0 \/ embed_args.dimensions > MAX_DIMENSIONS THEN
           embed_pc' = "ValueError" /\ embed_raised' = "dimensions"
       ELSE IF ~embed_args.client_ok THEN
           embed_pc' = "RuntimeError" /\ embed_raised' = "client_init"
       ELSE
           embed_pc' = "loop" /\ UNCHANGED embed_raised
    /\ UNCHANGED <<embed_args, retry_count, retry_delay, api_attempts, slept,
                   last_error, notEmbed>>

\* the loop is entered only while retry_count <= MAX_RETRIES
InLoop == embed_pc = "loop" /\ retry_count <= MAX_RETRIES

\* an attempt that returns an embedding of the requested length
EmbedReturn ==
    /\ InLoop
    /\ api_attempts' = api_attempts + 1
    /\ last_error' = {}
    /\ embed_pc' = "returned"
    /\ UNCHANGED <<embed_args, retry_count, retry_delay, slept, embed_raised, notEmbed>>

\* a rate-limited attempt with retries left: sleep, count, double the delay
EmbedRetry ==
    /\ InLoop
    /\ \E markers \in SUBSET ErrorMarkers :
          /\ IsRateLimited(markers)
          /\ last_error' = markers
    /\ MayRetry(retry_count)
    /\ api_attempts' = api_attempts + 1
    /\ slept' = Append(slept, retry_delay)
    /\ retry_count' = retry_count + 1
    /\ retry_delay' = Min(retry_delay * 2, MAX_RETRY_DELAY)
    /\ UNCHANGED <<embed_args, embed_pc, embed_raised, notEmbed>>

\* a rate-limited attempt with no retry left: break, then the final raise
EmbedGiveUp ==
    /\ InLoop
    /\ \E markers \in SUBSET ErrorMarkers :
          /\ IsRateLimited(markers)
          /\ last_error' = markers
    /\ ~MayRetry(retry_count)
    /\ api_attempts' = api_attempts + 1
    /\ embed_pc' = "RuntimeError"
    /\ embed_raised' = "after_retries"
    /\ UNCHANGED <<embed_args, retry_count, retry_delay, slept, notEmbed>>

\* any other exception of an attempt is raised at once
EmbedRaise ==
    /\ InLoop
    /\ \E markers \in SUBSET ErrorMarkers :
          /\ ~IsRateLimited(markers)
          /\ last_error' = markers
          /\ IF "api_key" \in markers THEN
                 embed_pc' = "RuntimeError" /\ embed_raised' = "api_key"
             ELSE IF "invalid_input" \in markers THEN
                 embed_pc' = "ValueError" /\ embed_raised' = "invalid_input"
             ELSE
                 embed_pc' = "RuntimeError" /\ embed_raised' = "failed"
    /\ api_attempts' = api_attempts + 1
    /\ UNCHANGED <<embed_args, retry_count, retry_delay, slept, notEmbed>>

DimensionsTried == {0, 1, DEFAULT_DIMENSIONS, MAX_DIMENSIONS, MAX_DIMENSIONS + 1}

InitEmbed ==
    /\ embed_args \in [text_empty : BOOLEAN, task_type_valid : BOOLEAN,
                       dimensions : DimensionsTried, client_ok : BOOLEAN]
    /\ embed_pc = "validate"
    /\ retry_count = 0
    /\ retry_delay = INITIAL_RETRY_DELAY
    /\ api_attempts = 0
    /\ slept = <<>>
    /\ last_error = {}
    /\ embed_raised = "none"
    /\ AsmIdle
    /\ HistIdle
    /\ ChunkIdle
    /\ SM2Idle
    /\ RouteIdle
    /\ DescIdle
    /\ ChatIdle
    /\ DocIdle

NextEmbed ==
    \/ EmbedValidate
    \/ EmbedReturn
    \/ EmbedRetry
    \/ EmbedGiveUp
    \/ EmbedRaise

SpecEmbed == InitEmbed /\ [][NextEmbed]_vars

\* the call is not preempted for ever: each step it can take, it takes
SpecEmbedFair == SpecEmbed /\ WF_vars(NextEmbed)

EmbedDone == embed_pc \in {"returned", "ValueError", "RuntimeError"}

\* C25: only rate-limit errors are retried; under persistent rate limiting
\* exactly MAX_RETRIES + 1 attempts are made before RuntimeError; any other
\* error is raised by the attempt that met it; the call always ends.
C25_RetryOnlyRateLimit ==
    /\ <>EmbedDone
    /\ [](/\ api_attempts = Len(slept) + (IF embed_pc \in {"validate", "loop"} THEN 0 ELSE 1)
             \/ embed_raised \in {"empty_text", "task_type", "dimensions", "client_init"}
          /\ embed_raised = "after_retries" =>
                (embed_pc = "RuntimeError" /\ api_attempts = MAX_RETRIES + 1
                 /\ Len(slept) = MAX_RETRIES /\ "rate_limit" \in last_error)
          /\ embed_raised \in {"api_key", "invalid_input", "failed"} =>
                "rate_limit" \notin last_error
          /\ api_attempts <= MAX_RETRIES + 1)
    /\ [][ api_attempts' > api_attempts =>
              /\ slept' # slept <=> ("rate_limit" \in last_error' /\ api_attempts < MAX_RETRIES)
              /\ slept' = slept => EmbedDone' ]_vars

\* persistent rate limiting ran the retries out
C25_Witness ==
    /\ embed_raised = "after_retries"
    /\ api_attempts = MAX_RETRIES + 1

\* an API-key error met on a retry ends the call there
C25_WitnessApiKey ==
    /\ embed_raised = "api_key"
    /\ api_attempts = 3
    /\ Len(slept) = 2

\* C26: the delays slept before successive retries are 1s, 2s, 4s, ...,
\* doubling and capped at MAX_RETRY_DELAY.
C26_BackoffFromOneSecond ==
    \A i \in 1..Len(slept) : slept[i] = Min(2 ^ (i - 1), MAX_RETRY_DELAY)

(***************************************************************************)
(* chat_with_document and its sse_stream generator, read to exhaustion by  *)
(* StreamingResponse.                                                      *)
(***************************************************************************)
\* _format(event, payload): one SSE frame
Frame(event, data) == [event |-> event, data |-> data]

\* the statuses of the HTTPExceptions raised before the stream is built:
\* _validate_document, generate_embedding, _fetch_matching_chunks,
\* _assemble_context
RejectStatuses == {400, 404, 500}

\* everything before return StreamingResponse(sse_stream(), ...)
ChatPrepare ==
    /\ chat_pc = "request"
    /\ \/ /\ chat_pc' = "open"
          /\ chat_status' = 200
       \/ /\ chat_pc' = "rejected"
          /\ chat_status' \in RejectStatuses
    /\ UNCHANGED <<gen_tokens, gen_error, pending_tokens, sse_events, notChat>>

\* yield _format("provenance", {"chunks": provenance_payload})
StreamProvenance ==
    /\ chat_pc = "open"
    /\ sse_events' = Append(sse_events, Frame("provenance", "chunks"))
    /\ chat_pc' = "collect"
    /\ UNCHANGED <<chat_status, gen_tokens, gen_error, pending_tokens, notChat>>

\* tokens = await anyio.to_thread.run_sync(_collect_tokens), exhausted
StreamCollected ==
    /\ chat_pc = "collect"
    /\ ~gen_error.raises
    /\ pending_tokens' = gen_tokens
    /\ chat_pc' = "tokens"
    /\ UNCHANGED <<chat_status, gen_tokens, gen_error, sse_events, notChat>>

\* mutant: after the error frame the stream goes on to its normal end
StreamError_continues ==
    /\ chat_pc = "collect"
    /\ gen_error.raises
    /\ sse_events' = Append(sse_events, Frame("error", gen_error.message))
    /\ pending_tokens' = <<>>
    /\ chat_pc' = "tokens"
    /\ UNCHANGED <<chat_status, gen_tokens, gen_error, notChat>>

\* the generation raises while it is collected: the fragments it had
\* yielded are dropped and the except branch yields the error frame
StreamError ==
    /\ chat_pc = "collect"
    /\ gen_error.raises
    /\ sse_events' = Append(sse_events, Frame("error", gen_error.message))
    /\ chat_pc' = "closed"
    /\ UNCHANGED <<chat_status, gen_tokens, gen_error, pending_tokens, notChat>>

\* one turn of "for token in tokens: if token: yield ..."
StreamToken ==
    /\ chat_pc = "tokens"
    /\ pending_tokens # <<>>
    /\ sse_events' = IF Head(pending_tokens) # ""
                        THEN Append(sse_events, Frame("token", Head(pending_tokens)))
                        ELSE sse_events
    /\ pending_tokens' = Tail(pending_tokens)
    /\ UNCHANGED <<chat_pc, chat_status, gen_tokens, gen_error, notChat>>

\* yield _format("done", {"finish_reason": "stop"})
StreamDone ==
    /\ chat_pc = "tokens"
    /\ pending_tokens = <<>>
    /\ sse_events' = Append(sse_events, Frame("done", "stop"))
    /\ chat_pc' = "closed"
    /\ UNCHANGED <<chat_status, gen_tokens, gen_error, pending_tokens, notChat>>

Fragments == {"", "Hi", "!"}
Messages  == {"", "quota exceeded"}

InitChat ==
    /\ chat_pc = "request"
    /\ chat_status = 0
    /\ \E n \in 0..MaxFragments : gen_tokens \in [1..n -> Fragments]
    /\ gen_error \in [raises : BOOLEAN, message : Messages]
    /\ pending_tokens = <<>>
    /\ sse_events = <<>>
    /\ AsmIdle
    /\ HistIdle
    /\ ChunkIdle
    /\ SM2Idle
    /\ RouteIdle
    /\ DescIdle
    /\ EmbedIdle
    /\ DocIdle

NextChat ==
    \/ ChatPrepare
    \/ StreamProvenance
    \/ StreamCollected
    \/ StreamError
    \/ StreamToken
    \/ StreamDone

SpecChat == InitChat /\ [][NextChat]_vars

\* the response is read to its end
SpecChatFair == SpecChat /\ WF_vars(NextChat)

Terminal(frame) == frame.event \in {"done", "error"}

\* a stream that has begun
Streaming == chat_pc \in {"collect", "tokens", "closed"}

\* C27: a stream that starts emits one provenance event first, then zero
\* or more token events, then exactly one terminal event, done (stop) or
\* error, and nothing after it; when the generation raises, the last event
\* is error with the exception's message.
C27_StreamShape ==
    /\ [](Streaming =>
            /\ Len(sse_events) >= 1
            /\ sse_events[1] = Frame("provenance", "chunks")
            /\ \A i \in 2..Len(sse_events) :
                  \/ i < Len(sse_events) /\ sse_events[i].event = "token"
                  \/ i = Len(sse_events)
                        /\ sse_events[i].event \in {"token", "done", "error"}
            /\ chat_pc = "closed" <=> Terminal(sse_events[Len(sse_events)])
            /\ chat_pc = "closed" =>
                  sse_events[Len(sse_events)] =
                      IF gen_error.raises THEN Frame("error", gen_error.message)
                                          ELSE Frame("done", "stop"))
    /\ [](~Streaming => sse_events = <<>>)
    /\ [][chat_pc = "closed" => sse_events' = sse_events]_vars
    /\ (chat_pc = "open") ~> (chat_pc = "closed")

\* a stream of two tokens ended by done
C27_Witness ==
    /\ chat_pc = "closed"
    /\ Len(sse_events) = 4
    /\ sse_events[2].event = "token"
    /\ sse_events[4] = Frame("done", "stop")

\* the generation raised after yielding fragments: provenance, then error
C27_WitnessError ==
    /\ chat_pc = "closed"
    /\ gen_tokens # <<>>
    /\ sse_events = <<Frame("provenance", "chunks"), Frame("error", "quota exceeded")>>

(***************************************************************************)
(* embed_document: one request.  The database calls and the embedding      *)
(* service are external: each either succeeds or raises.                   *)
(***************************************************************************)
\* a response without any update of documents.status
Respond(code, stage) ==
    /\ embed_http' = code
    /\ failed_stage' = stage
    /\ embed_doc_pc' = "responded"

\* mutant: the 500 response is sent without touching the status
FailAndMark_silent(stage, ok) ==
    /\ Respond(500, stage)
    /\ UNCHANGED <<document, status_updates>>

\* the except branches of chunking, generation, count check and insert:
\* update status to 'failed' (an error of the update is logged and
\* swallowed), then raise HTTPException 500
FailAndMark(stage, ok) ==
    /\ status_updates' = Append(status_updates, [to |-> "failed", ok |-> ok])
    /\ document' = IF ok THEN [document EXCEPT !.status = "failed"] ELSE document
    /\ Respond(500, stage)

\* select the document, check ownership and extracted text
EmbedDocFetch ==
    /\ embed_doc_pc = "fetch"
    /\ \E db_error \in BOOLEAN :
          IF db_error THEN Respond(500, "fetch")
          ELSE IF ~document.found THEN Respond(404, "fetch")
          ELSE IF ~document.has_text THEN Respond(400, "fetch")
          ELSE embed_doc_pc' = "chunk" /\ UNCHANGED <<embed_http, failed_stage>>
    /\ UNCHANGED <<document, status_before, doc_chunks, embedding_rows,
                   status_updates, notDoc>>

ChunkTextsOfDoc == {"x", "y"}

\* chunks = chunk_text(extracted_text, ...): raises, returns nothing, or
\* returns the chunks
EmbedDocChunk ==
    /\ embed_doc_pc = "chunk"
    /\ \/ \E ok \in BOOLEAN :
             /\ FailAndMark("chunking", ok)
             /\ UNCHANGED doc_chunks
       \/ /\ doc_chunks' = <<>>
          /\ Respond(400, "chunking")
          /\ UNCHANGED <<document, status_updates>>
       \/ /\ \E n \in 1..MaxDocChunks : doc_chunks' \in [1..n -> ChunkTextsOfDoc]
          /\ embed_doc_pc' = "delete"
          /\ UNCHANGED <<document, status_updates, embed_http, failed_stage>>
    /\ UNCHANGED <<status_before, embedding_rows, notDoc>>

\* delete the document's existing embeddings
EmbedDocDelete ==
    /\ embed_doc_pc = "delete"
    /\ \E db_error \in BOOLEAN :
          IF db_error THEN
              /\ Respond(500, "delete")
              /\ UNCHANGED embedding_rows
          ELSE
              /\ embedding_rows' = <<>>
              /\ embed_doc_pc' = "generate"
              /\ UNCHANGED <<embed_http, failed_stage>>
    /\ UNCHANGED <<document, status_before, doc_chunks, status_updates, notDoc>>

\* generate_embeddings_batch(chunks, ...) and the count check; the route
\* does not rely on the service returning one embedding per chunk
EmbedDocGenerate ==
    /\ embed_doc_pc = "generate"
    /\ \/ \E ok \in BOOLEAN : FailAndMark("generation", ok)
       \/ \E ok \in BOOLEAN, embedding_count \in 0..MaxDocChunks :
             /\ embedding_count # Len(doc_chunks)
             /\ FailAndMark("count", ok)
       \/ /\ embed_doc_pc' = "insert"
          /\ UNCHANGED <<document, status_updates, embed_http, failed_stage>>
    /\ UNCHANGED <<status_before, doc_chunks, embedding_rows, notDoc>>

\* embedding_records: one per chunk, chunk_index from enumerate
EmbeddingRecords(chunk_list) ==
    [i \in 1..Len(chunk_list) |-> [chunk_index |-> i - 1, chunk_text |-> chunk_list[i]]]

\* the batch insert of the records
EmbedDocInsert ==
    /\ embed_doc_pc = "insert"
    /\ \/ \E ok \in BOOLEAN :
             /\ FailAndMark("insert", ok)
             /\ UNCHANGED embedding_rows
       \/ /\ embedding_rows' = embedding_rows \o EmbeddingRecords(doc_chunks)
          /\ embed_doc_pc' = "mark"
          /\ UNCHANGED <<document, status_updates, embed_http, failed_stage>>
    /\ UNCHANGED <<status_before, doc_chunks, notDoc>>

\* update status to 'embedded' (an error is logged, the request succeeds)
EmbedDocMarkEmbedded ==
    /\ embed_doc_pc = "mark"
    /\ \E ok \in BOOLEAN :
          /\ status_updates' = Append(status_updates, [to |-> "embedded", ok |-> ok])
          /\ document' = IF ok THEN [document EXCEPT !.status = "embedded"] ELSE document
    /\ Respond(200, "none")
    /\ UNCHANGED <<status_before, doc_chunks, embedding_rows, notDoc>>

DocStatuses == {"extracted", "embedded", "failed"}

\* rows left by an earlier run of the route
EarlierRows == {<<>>, EmbeddingRecords(<<"w">>)}

InitDoc ==
    /\ document \in [found : BOOLEAN, has_text : BOOLEAN, status : DocStatuses]
    /\ status_before = document.status
    /\ embed_doc_pc = "fetch"
    /\ doc_chunks = <<>>
    /\ embedding_rows \in EarlierRows
    /\ status_updates = <<>>
    /\ embed_http = 0
    /\ failed_stage = "none"
    /\ AsmIdle
    /\ HistIdle
    /\ ChunkIdle
    /\ SM2Idle
    /\ RouteIdle
    /\ DescIdle
    /\ EmbedIdle
    /\ ChatIdle

NextDoc ==
    \/ EmbedDocFetch
    \/ EmbedDocChunk
    \/ EmbedDocDelete
    \/ EmbedDocGenerate
    \/ EmbedDocInsert
    \/ EmbedDocMarkEmbedded

SpecDoc == InitDoc /\ [][NextDoc]_vars

\* the steps whose failure the route answers by marking the document
MarkedStages == {"chunking", "generation", "count", "insert"}

\* the request failed with 500 in one of the marked steps
FailedMarkedStage ==
    /\ embed_doc_pc = "responded"
    /\ embed_http = 500
    /\ failed_stage \in MarkedStages

\* 'embedded' was written only with a row per chunk, in chunk order
EmbeddedOnlyAfterRows ==
    (\E i \in 1..Len(status_updates) : status_updates[i].to = "embedded") =>
        /\ Len(status_updates) = 1
        /\ Len(doc_chunks) >= 1
        /\ embedding_rows = EmbeddingRecords(doc_chunks)
        /\ \A i \in 1..Len(doc_chunks) :
              embedding_rows[i] = [chunk_index |-> i - 1, chunk_text |-> doc_chunks[i]]

\* C28 (as claimed): a failure in chunking, generation, the count check or
\* the insert leaves the status 'failed', by exactly one status update,
\* when the 500 is sent; 'embedded' is written only after a row for every
\* chunk was inserted.
C28_FailureMarksFailed ==
    /\ FailedMarkedStage =>
          /\ Len(status_updates) = 1
          /\ document.status = "failed"
    /\ EmbeddedOnlyAfterRows

\* C28 (amended): such a failure issues exactly one status update, to
\* 'failed', before the 500; the status is 'failed' unless that update
\* itself raised, in which case it is what it was; 'embedded' is written
\* only after a row for every chunk was inserted.
C28_FailureIssuesFailedUpdate ==
    /\ FailedMarkedStage =>
          /\ Len(status_updates) = 1
          /\ status_updates[1].to = "failed"
          /\ document.status = IF status_updates[1].ok THEN "failed" ELSE status_before
    /\ EmbeddedOnlyAfterRows

\* the insert failed and the document was marked
C28_Witness ==
    /\ FailedMarkedStage
    /\ failed_stage = "insert"
    /\ status_before = "extracted"
    /\ document.status = "failed"

\* a second chunk's row follows the first and the status is 'embedded'
C28_WitnessEmbedded ==
    /\ embed_http = 200
    /\ document.status = "embedded"
    /\ Len(embedding_rows) = 2
    /\ embedding_rows[1].chunk_text # embedding_rows[2].chunk_text

\* C30: on the sliding-window path of chunk_text (more tokens than
\* chunk_size, valid parameters, every window decoded) every chunk after the
\* first reaches beyond the end of the chunk before it, so the last chunk is
\* never wholly contained in its predecessor.
C30_EachChunkExtends ==
    (ChunkTextDone /\ chunk_outcome = "returned" /\ ~InvalidParams
       /\ ~encoder_fails /\ ~decode_failed /\ Len(Encode(text)) > chunk_size) =>
        \A i \in 2..Len(windows) : windows[i].e > windows[i - 1].e

====
